---- MODULE Spec2Model ----
(***************************************************************************)
(* Model of the Solution analyzer of optimal-logistic-network-contest      *)
(* (MCF_lib_ext.py) and of the solution loader of validator_ext.py.        *)
(*                                                                         *)
(* Numbers.  Volumes are Python floats; here a volume is an integer count  *)
(* of 1/Unit cubic metres (Unit = 10^4), so 49.9995 is 499995 and the      *)
(* vehicle capacity 90.0 is 90 * Unit.  Money is an integer count of       *)
(* 1/Unit roubles.  Quotients that are not integers (utilization, the      *)
(* averages) are kept as pairs <<numerator, denominator>>.  Spec adds      *)
(* volumes exactly; FloatSpec, further down, adds the volumes of one leg   *)
(* as the floats they are, where the order of the terms matters.           *)
(*                                                                         *)
(* Text.  A CSV cell holding a path is a sequence of character codes       *)
(* (ASCII), so that a path and its text are different values, as a list    *)
(* and a str are in Python.                                                *)
(***************************************************************************)
EXTENDS Integers, Sequences, FiniteSets, TLC

VARIABLES sol, disk, call, ret, raised, log

vars == <<sol, disk, call, ret, raised, log>>

\* ------------------------------------------------------------------ bounds

\* Longest flow list (and longest solution file) an operation is given.
MaxFlows == 2

\* Most flows over one edge when the volumes are added as floats.
MaxTerms == 3

\* ------------------------------------------------------------------ units

Unit == 10 * 10 * 10 * 10

\* vehicle_capacity=90.0, the default of Solution.__init__ and of the loaders.
DefaultVehicleCapacity == 90

\* ------------------------------------------------------------------ helpers

Abs(x) == IF x < 0 THEN 0 - x ELSE x

RECURSIVE SumSeq(_)
SumSeq(s) == IF s = <<>> THEN 0 ELSE Head(s) + SumSeq(Tail(s))

RECURSIVE SumOver(_, _)
\* sum(f[k] for k in S)
SumOver(f, S) ==
    IF S = {} THEN 0
    ELSE LET k == CHOOSE x \in S : TRUE IN f[k] + SumOver(f, S \ {k})

\* math.ceil(a / b) for a >= 0, b > 0
CeilDiv(a, b) == (a + b - 1) \div b

\* None, for a value that is otherwise a record
None == [none |-> TRUE]

\* ------------------------------------------------------------------ reference data

Nodes == {1, 2, 3}

\* matrix_df: (src, dst) -> distance (m), time (s), price_per_km
EdgeRow(s, t) ==
    [distance |-> 1000 * (s + 2 * t), time |-> 60 * (2 * s + t), price_per_km |-> 10 + s]

FullMatrix == [e \in Nodes \X Nodes |-> EdgeRow(e[1], e[2])]

\* An edge reference without the edge 2 -> 3.
PartialMatrix == [e \in (Nodes \X Nodes) \ {<<2, 3>>} |-> EdgeRow(e[1], e[2])]

\* offices_df: office_id -> transfer_price, transfer_max; node 3 has no row.
OfficesTable ==
    [none |-> FALSE,
     rows |-> (1 :> [transfer_price |-> 2, transfer_max |-> 45 * Unit])
           @@ (2 :> [transfer_price |-> 3, transfer_max |-> 10 * Unit])]

\* The reference data of one run: matrix_df, offices_df (None when offices.csv is absent).
Envs ==
    { [matrix_df |-> FullMatrix, offices_df |-> OfficesTable],
      [matrix_df |-> PartialMatrix, offices_df |-> OfficesTable],
      [matrix_df |-> FullMatrix, offices_df |-> None] }

\* ------------------------------------------------------------------ Solution: legs

\* edges = [(path_nodes[i], path_nodes[i+1]) for i in range(len(path_nodes)-1)]
Edges(path_nodes) == [i \in 1..(Len(path_nodes) - 1) |-> <<path_nodes[i], path_nodes[i + 1]>>]

\* The leg created for an edge seen for the first time.
NewLeg(matrix_df, e) ==
    [distance |-> matrix_df[e].distance,
     time |-> matrix_df[e].time,
     cost_per_km |-> matrix_df[e].price_per_km,
     sum_volume |-> 0,
     reqs |-> <<>>]

\* logger.critical(f'Нет данных в matrix_df для ребра {s} → {t}')
MissingEdgeRecord(e) == [level |-> "CRITICAL", edge |-> e]

\* Faulty variant: a contribution equal to the leg's last one is dropped.
AddContributionOnce(leg, key, volume) ==
    IF leg.reqs # <<>> /\ leg.reqs[Len(leg.reqs)] = <<key, volume>>
    THEN leg
    ELSE [leg EXCEPT !.reqs = Append(@, <<key, volume>>), !.sum_volume = @ + volume]

\* transport_legs[key]['reqs'].append(((src, dst), volume)); ['sum_volume'] += volume
AddContribution(leg, key, volume) ==
    [leg EXCEPT !.reqs = Append(@, <<key, volume>>), !.sum_volume = @ + volume]

\* Whether matrix_df.loc[s, t] finds a row (no KeyError).
Resolves(matrix_df, e) == e \in DOMAIN matrix_df

\* Faulty variant: a missing edge is reported only the first time it is met.
AddEdgeLogOnce(acc, e, key, volume, matrix_df) ==
    IF e \in DOMAIN acc.legs
    THEN [acc EXCEPT !.legs[e] = AddContribution(@, key, volume)]
    ELSE IF Resolves(matrix_df, e)
    THEN [acc EXCEPT !.legs = (e :> AddContribution(NewLeg(matrix_df, e), key, volume)) @@ @]
    ELSE IF \E i \in 1..Len(acc.log) : acc.log[i] = MissingEdgeRecord(e)
    THEN acc
    ELSE [acc EXCEPT !.log = Append(@, MissingEdgeRecord(e))]

\* The body of "for (s, t) in edges" for one edge; acc = [legs, log].
AddEdge(acc, e, key, volume, matrix_df) ==
    IF e \in DOMAIN acc.legs
    THEN [acc EXCEPT !.legs[e] = AddContribution(@, key, volume)]
    ELSE IF Resolves(matrix_df, e)
    THEN [acc EXCEPT !.legs = (e :> AddContribution(NewLeg(matrix_df, e), key, volume)) @@ @]
    ELSE [acc EXCEPT !.log = Append(@, MissingEdgeRecord(e))]

RECURSIVE AddEdges(_, _, _, _, _)
\* for (s, t) in edges: ...
AddEdges(acc, edges, key, volume, matrix_df) ==
    IF edges = <<>> THEN acc
    ELSE AddEdges(AddEdge(acc, Head(edges), key, volume, matrix_df),
                  Tail(edges), key, volume, matrix_df)

RECURSIVE AddPaths(_, _, _)
\* for path in self.paths: ...
AddPaths(acc, paths, matrix_df) ==
    IF paths = <<>> THEN acc
    ELSE LET path == Head(paths)
         IN AddPaths(AddEdges(acc, Edges(path.path_nodes), <<path.src, path.dst>>,
                              path.volume, matrix_df),
                     Tail(paths), matrix_df)

\* Faulty variant: the ceiling is taken per contribution and summed.
VehiclesPerContribution(leg, vehicle_capacity) ==
    SumSeq([i \in 1..Len(leg.reqs) |-> CeilDiv(leg.reqs[i][2], vehicle_capacity)])

\* leg['vehicles'] = math.ceil(leg['sum_volume'] / self.vehicle_capacity)
Vehicles(leg, vehicle_capacity) == CeilDiv(leg.sum_volume, vehicle_capacity)

\* leg['sum_cost'] = leg['vehicles'] * leg['cost_per_km'] * leg['distance'] / 1000.0
\* (in 1/Unit roubles; Unit is a multiple of 1000, so the division is exact)
SumCost(vehicles, leg) == vehicles * leg.cost_per_km * leg.distance * (Unit \div 1000)

\* for leg in transport_legs.values(): set vehicles and sum_cost
PriceLegs(legs, vehicle_capacity) ==
    [e \in DOMAIN legs |->
        LET v == Vehicles(legs[e], vehicle_capacity)
        IN [distance |-> legs[e].distance,
            time |-> legs[e].time,
            cost_per_km |-> legs[e].cost_per_km,
            sum_volume |-> legs[e].sum_volume,
            reqs |-> legs[e].reqs,
            vehicles |-> v,
            sum_cost |-> SumCost(v, legs[e])]]

\* _reconstruct_transport_legs_from_paths: the leg map and what it logged
ReconstructTransportLegs(paths, vehicle_capacity, matrix_df) ==
    LET acc == AddPaths([legs |-> <<>>, log |-> <<>>], paths, matrix_df)
    IN [legs |-> PriceLegs(acc.legs, vehicle_capacity), log |-> acc.log]

\* ------------------------------------------------------------------ Solution: requests

RECURSIVE ReqsLoop(_, _)
\* for path in self.paths: reqs[(src, dst)] = reqs.get((src, dst), 0) + volume
ReqsLoop(reqs, paths) ==
    IF paths = <<>> THEN reqs
    ELSE LET path == Head(paths)
             key == <<path.src, path.dst>>
             old == IF key \in DOMAIN reqs THEN reqs[key] ELSE 0
         IN ReqsLoop((key :> (old + path.volume)) @@ reqs, Tail(paths))

\* _reconstruct_reqs_from_paths
ReconstructReqs(paths) == ReqsLoop(<<>>, paths)

\* ------------------------------------------------------------------ Solution: transfer

\* Faulty variant: the source and the destination count as transit nodes.
TransitNodesWithEnds(path_nodes) == path_nodes

\* transit_nodes = path_nodes[1:-1] if len(path_nodes) > 2 else []
TransitNodes(path_nodes) ==
    IF Len(path_nodes) > 2 THEN SubSeq(path_nodes, 2, Len(path_nodes) - 1) ELSE <<>>

\* f"{x:.2f}": x in hundredths, ties to even
Format2(x) ==
    LET h == Unit \div 100
        q == x \div h
        r == x % h
    IN IF 2 * r > h \/ (2 * r = h /\ q % 2 = 1) THEN q + 1 ELSE q

\* defaultdict(float): d[k] += v
Bump(d, k, v) == (k :> ((IF k \in DOMAIN d THEN d[k] ELSE 0) + v)) @@ d

\* self.offices_df is not None and node in self.offices_df.index
HasOffice(offices_df, node) == ~offices_df.none /\ node \in DOMAIN offices_df.rows

\* Faulty variant: only node_in_flow is incremented.
TransitStepInboundOnly(acc, node, volume, offices_df) ==
    [cost |-> IF HasOffice(offices_df, node)
              THEN acc.cost + volume * offices_df.rows[node].transfer_price
              ELSE acc.cost,
     in_flow |-> Bump(acc.in_flow, node, volume),
     out_flow |-> acc.out_flow]

\* The body of "for node in transit_nodes"; acc = [cost, in_flow, out_flow].
TransitStep(acc, node, volume, offices_df) ==
    [cost |-> IF HasOffice(offices_df, node)
              THEN acc.cost + volume * offices_df.rows[node].transfer_price
              ELSE acc.cost,
     in_flow |-> Bump(acc.in_flow, node, volume),
     out_flow |-> Bump(acc.out_flow, node, volume)]

RECURSIVE TransitLoop(_, _, _, _)
\* for node in transit_nodes: ...
TransitLoop(acc, nodes, volume, offices_df) ==
    IF nodes = <<>> THEN acc
    ELSE TransitLoop(TransitStep(acc, Head(nodes), volume, offices_df),
                     Tail(nodes), volume, offices_df)

RECURSIVE TransferLoop(_, _, _)
\* for path in self.paths: ... (the accumulation of _calculate_transfer_costs)
TransferLoop(acc, paths, offices_df) ==
    IF paths = <<>> THEN acc
    ELSE TransferLoop(TransitLoop(acc, TransitNodes(Head(paths).path_nodes),
                                  Head(paths).volume, offices_df),
                      Tail(paths), offices_df)

\* A finding of the node capacity check: the node, the direction, the flow as
\* printed (2 decimals) and transfer_max.
Violation(node, direction, flow, transfer_max) ==
    [node |-> node, direction |-> direction, flow |-> Format2(flow), max |-> transfer_max]

\* Faulty variant: a flow equal to transfer_max counts as exceeding it.
ExceedsOrEquals(flows, node, transfer_max) ==
    node \in DOMAIN flows /\ flows[node] >= transfer_max

\* node_id in node_in_flow and node_in_flow[node_id] > transfer_max
Exceeds(flows, node, transfer_max) ==
    node \in DOMAIN flows /\ flows[node] > transfer_max

\* The two checks of one row of offices_df.
NodeViolations(node, transfer_max, in_flow, out_flow) ==
    (IF Exceeds(in_flow, node, transfer_max)
     THEN <<Violation(node, "in", in_flow[node], transfer_max)>> ELSE <<>>)
    \o
    (IF Exceeds(out_flow, node, transfer_max)
     THEN <<Violation(node, "out", out_flow[node], transfer_max)>> ELSE <<>>)

RECURSIVE RowsLoop(_, _, _, _)
\* for node_id, row in self.offices_df.iterrows(): rows in the order of the table
\* (here: ascending office_id)
RowsLoop(rows, todo, in_flow, out_flow) ==
    IF todo = {} THEN <<>>
    ELSE LET n == CHOOSE x \in todo : \A y \in todo : x <= y
         IN NodeViolations(n, rows[n].transfer_max, in_flow, out_flow)
            \o RowsLoop(rows, todo \ {n}, in_flow, out_flow)

\* _calculate_transfer_costs: total_transfer_cost, transfer_violations (and the
\* two flow dictionaries it builds)
CalculateTransferCosts(paths, offices_df) ==
    LET acc == TransferLoop([cost |-> 0, in_flow |-> <<>>, out_flow |-> <<>>],
                            paths, offices_df)
    IN [cost |-> acc.cost,
        violations |-> IF offices_df.none THEN <<>>
                       ELSE RowsLoop(offices_df.rows, DOMAIN offices_df.rows,
                                     acc.in_flow, acc.out_flow),
        in_flow |-> acc.in_flow,
        out_flow |-> acc.out_flow]

\* ------------------------------------------------------------------ Solution: metrics

\* sum(path['volume'] for path in self.paths)
TotalVolume(paths) == SumSeq([i \in 1..Len(paths) |-> paths[i].volume])

\* count_underloaded_legs(threshold=0.3): sum_volume < 0.3 * vehicle_capacity
CountUnderloadedLegs(legs, vehicle_capacity) ==
    Cardinality({e \in DOMAIN legs : 10 * legs[e].sum_volume < 3 * vehicle_capacity})

\* Faulty variant: the quotient is not clamped to 100.
UtilizationUnclamped(total_volume, total_capacity) ==
    IF total_capacity > 0 THEN <<total_volume * 100, total_capacity>> ELSE <<0, 1>>

\* min((total_volume / total_capacity * 100) if total_capacity > 0 else 0.0, 100.0)
\* as <<numerator, denominator>>
Utilization(total_volume, total_capacity) ==
    IF total_capacity > 0
    THEN IF total_volume <= total_capacity
         THEN <<total_volume * 100, total_capacity>>
         ELSE <<100, 1>>
    ELSE <<0, 1>>

\* Faulty variant: the transfer cost is left out.
TotalCostTransportOnly(transport_cost, transfer_cost) == transport_cost

\* self.total_cost = self.transport_cost + self.transfer_cost
TotalCost(transport_cost, transfer_cost) == transport_cost + transfer_cost

\* _compute_metrics: every attribute it sets
ComputeMetrics(paths, vehicle_capacity, offices_df, legs, reqs) ==
    LET E == DOMAIN legs
        total_volume == TotalVolume(paths)
        total_vehicles == SumOver([e \in E |-> legs[e].vehicles], E)
        total_distance == SumOver([e \in E |-> legs[e].distance * legs[e].vehicles], E)
        total_time == SumOver([e \in E |-> legs[e].time * legs[e].vehicles], E)
        transport_cost == SumOver([e \in E |-> legs[e].sum_cost], E)
        transfer == CalculateTransferCosts(paths, offices_df)
        total_cost == TotalCost(transport_cost, transfer.cost)
        n_reqs == Cardinality(DOMAIN reqs)
        sum_reqs == SumOver(reqs, DOMAIN reqs)
    IN [total_volume |-> total_volume,
        total_vehicles |-> total_vehicles,
        total_distance |-> total_distance,
        total_time |-> total_time,
        transport_cost |-> transport_cost,
        transfer_cost |-> transfer.cost,
        transfer_violations |-> transfer.violations,
        total_cost |-> total_cost,
        avg_delivery_time_per_req |-> IF n_reqs > 0 THEN <<total_time, n_reqs>> ELSE <<0, 1>>,
        avg_delivery_time_per_volume |->
            IF sum_reqs > 0 THEN <<total_time * Unit, sum_reqs>> ELSE <<0, 1>>,
        paths_per_req |-> IF n_reqs > 0 THEN <<Len(paths), n_reqs>> ELSE <<0, 1>>,
        vehicle_utilization |-> Utilization(total_volume, total_vehicles * vehicle_capacity),
        underloaded_legs |-> CountUnderloadedLegs(legs, vehicle_capacity),
        \* float('inf') is <<1, 0>>
        cost_per_cubic_meter |->
            IF total_volume > 0 THEN <<total_cost, total_volume>> ELSE <<1, 0>>]

\* Solution.__init__: the object, and the records it logged while being built.
NewSolution(paths, vehicle_capacity, matrix_df, offices_df) ==
    LET built == ReconstructTransportLegs(paths, vehicle_capacity, matrix_df)
        reqs == ReconstructReqs(paths)
    IN [obj |-> [none |-> FALSE,
                 paths |-> paths,
                 vehicle_capacity |-> vehicle_capacity,
                 matrix_df |-> matrix_df,
                 offices_df |-> offices_df,
                 transport_legs |-> built.legs,
                 reqs |-> reqs,
                 metrics |-> ComputeMetrics(paths, vehicle_capacity, offices_df,
                                            built.legs, reqs)],
        log |-> built.log]

\* ------------------------------------------------------------------ validate_coverage

\* A finding of validate_coverage: the request, exp_vol, and act_vol as printed.
CoverageFinding(row, act_vol) ==
    [src |-> row.src, dst |-> row.dst, expected |-> row.volume, actual |-> Format2(act_vol)]

\* The tolerance 1e-3 of validate_coverage.
Tolerance == Unit \div 1000

\* Faulty variant: only a surplus over the expected volume is a mismatch.
MismatchSigned(act_vol, exp_vol) == act_vol - exp_vol > Tolerance

\* abs(act_vol - exp_vol) > 1e-3
Mismatch(act_vol, exp_vol) == Abs(act_vol - exp_vol) > Tolerance

RECURSIVE CoverageLoop(_, _)
\* for (src, dst), exp_vol in df_tare['volume'].items(): ...
CoverageLoop(actual, rows) ==
    IF rows = <<>> THEN <<>>
    ELSE LET row == Head(rows)
             key == <<row.src, row.dst>>
             act_vol == IF key \in DOMAIN actual THEN actual[key] ELSE 0
         IN (IF Mismatch(act_vol, row.volume)
             THEN <<CoverageFinding(row, act_vol)>> ELSE <<>>)
            \o CoverageLoop(actual, Tail(rows))

RECURSIVE ActualLoop(_, _)
\* for path in self.paths: actual[(path['src'], path['dst'])] += path['volume']
ActualLoop(actual, paths) ==
    IF paths = <<>> THEN actual
    ELSE ActualLoop(Bump(actual, <<Head(paths).src, Head(paths).dst>>, Head(paths).volume),
                    Tail(paths))

\* Solution.validate_coverage(df_tare): errors
ValidateCoverageOf(paths, df_tare) == CoverageLoop(ActualLoop(<<>>, paths), df_tare)

\* Faulty variant: the actual volumes are read off the leg map (the contributions
\* of the legs that leave the request's source), not off the flows.
ErrorsFromLegs(self, df_tare) ==
    LET legs == self.transport_legs
        keys == UNION {{legs[e].reqs[i][1] : i \in 1..Len(legs[e].reqs)} : e \in DOMAIN legs}
        actual == [k \in keys |->
                      SumOver([e \in DOMAIN legs |->
                                  SumSeq([i \in 1..Len(legs[e].reqs) |->
                                             IF legs[e].reqs[i][1] = k /\ e[1] = k[1]
                                             THEN legs[e].reqs[i][2] ELSE 0])],
                              DOMAIN legs)]
    IN CoverageLoop(actual, df_tare)

\* self.validate_coverage(df_tare): what it returns
Errors(self, df_tare) == ValidateCoverageOf(self.paths, df_tare)

\* Faulty variant: the volumes are looked up with self.reqs[(src, dst)], and
\* reqs, a defaultdict, gains an entry of 0 for every request it lacks.
SelfAfterCoverageTouchingReqs(self, df_tare) ==
    LET missing == {<<df_tare[j].src, df_tare[j].dst>> : j \in 1..Len(df_tare)} \ DOMAIN self.reqs
    IN [self EXCEPT !.reqs = [k \in missing |-> 0] @@ @]

\* self.validate_coverage(df_tare): self after the call.  The method assigns no
\* attribute of self; actual is a local dictionary, read with .get
SelfAfterCoverage(self, df_tare) == self

\* ------------------------------------------------------------------ text of a path

\* str(n) for a one-digit node id: the character code of the digit
StrOfInt(n) == <<48 + n>>

RECURSIVE JoinItems(_)
\* ', '.join(str(n) for n in items)
JoinItems(items) ==
    IF items = <<>> THEN <<>>
    ELSE IF Len(items) = 1 THEN StrOfInt(items[1])
    ELSE StrOfInt(items[1]) \o <<44, 32>> \o JoinItems(Tail(items))

\* str(path_nodes), what DataFrame.to_csv writes for a list cell: "[1, 2, 3]"
StrOfList(items) == <<91>> \o JoinItems(items) \o <<93>>

IsDigit(c) == c \in 48..57

RECURSIVE SkipSpaces(_)
SkipSpaces(text) ==
    IF text # <<>> /\ Head(text) = 32 THEN SkipSpaces(Tail(text)) ELSE text

RECURSIVE EvalItems(_)
\* The elements between the brackets: one-digit integers separated by commas,
\* spaces allowed around them. [ok, value]
EvalItems(text) ==
    LET t == SkipSpaces(text)
    IN IF t = <<>> THEN [ok |-> TRUE, value |-> <<>>]
       ELSE IF ~IsDigit(Head(t)) THEN [ok |-> FALSE, value |-> <<>>]
       ELSE LET after == SkipSpaces(Tail(t))
            IN IF after = <<>> THEN [ok |-> TRUE, value |-> <<Head(t) - 48>>]
               ELSE IF Head(after) # 44 THEN [ok |-> FALSE, value |-> <<>>]
               ELSE LET rest == EvalItems(Tail(after))
                    IN [ok |-> rest.ok, value |-> <<Head(t) - 48>> \o rest.value]

\* eval(row['path_nodes']) for the text of a list; ok = FALSE when it raises
EvalList(text) ==
    IF Len(text) >= 2 /\ text[1] = 91 /\ text[Len(text)] = 93
    THEN EvalItems(SubSeq(text, 2, Len(text) - 1))
    ELSE [ok |-> FALSE, value |-> <<>>]

\* ------------------------------------------------------------------ export

\* paths.csv as save_to_csv writes it: one row per path, path_nodes as text.
\* (transport_legs.csv and summary.csv are written too; no loader reads them.)
CsvRows(paths) ==
    [i \in 1..Len(paths) |->
        [src |-> paths[i].src, dst |-> paths[i].dst, volume |-> paths[i].volume,
         path_nodes |-> StrOfList(paths[i].path_nodes)]]

\* The directory save_to_csv leaves: paths.csv only "if self.paths"
SaveToCsvOf(s) ==
    [kind |-> "csv", by |-> "save_to_csv", has_file |-> s.paths # <<>>,
     rows |-> CsvRows(s.paths), doc |-> <<>>]

\* solution.json as save_to_json writes it: the keys 'paths', 'transport_legs',
\* 'metadata' (the last two are not read back into a Solution), no key 'flows'.
SaveToJsonOf(s) ==
    [kind |-> "json", by |-> "save_to_json", has_file |-> TRUE, rows |-> <<>>,
     doc |-> [has_paths |-> TRUE, paths |-> s.paths, has_flows |-> FALSE, flows |-> <<>>]]

\* ------------------------------------------------------------------ import

\* The outcome of a call that returns a Solution or raises.
Returned(new, log_before) ==
    [raised |-> "none", ret |-> [kind |-> "solution", obj |-> new.obj],
     log |-> log_before \o new.log]

Raised(exception, log_before) ==
    [raised |-> exception, ret |-> [kind |-> "none"], log |-> log_before]

\* Solution.load_from_csv(input_file_path, ...): paths_df.to_dict(orient='records'),
\* so path_nodes stays the text read from the file
LoadFromCsvOf(d, vehicle_capacity, env) ==
    IF ~d.has_file THEN Raised("ValueError", <<>>)
    ELSE Returned(NewSolution(d.rows, vehicle_capacity, env.matrix_df, env.offices_df), <<>>)

\* Solution.load_from_json(input_dir, ...)
LoadFromJsonOf(d, vehicle_capacity, env) ==
    IF ~d.has_file THEN Raised("FileNotFoundError", <<>>)
    ELSE IF ~d.doc.has_paths THEN Raised("KeyError", <<>>)
    ELSE IF d.doc.paths # <<>>
    THEN Returned(NewSolution(d.doc.paths, vehicle_capacity, env.matrix_df, env.offices_df),
                  <<>>)
    \* cls(paths=None, transport_legs=...): __init__ takes no transport_legs
    ELSE Raised("TypeError", <<>>)

\* legs = [{"from_office_id": path_nodes[i], "to_office_id": path_nodes[i+1]} ...]
LegsOfPath(path_nodes) ==
    [i \in 1..(Len(path_nodes) - 1) |->
        [from_office_id |-> path_nodes[i], to_office_id |-> path_nodes[i + 1]]]

\* logger.error(f"Ошибка обработки строки в CSV: {e}")
BadRowRecord(row) == [level |-> "ERROR", row |-> row]

RECURSIVE CsvFlows(_)
\* for _, row in df.iterrows(): try ... except: [flows, log]
CsvFlows(rows) ==
    IF rows = <<>> THEN [flows |-> <<>>, log |-> <<>>]
    ELSE LET row == Head(rows)
             parsed == EvalList(row.path_nodes)
             rest == CsvFlows(Tail(rows))
         IN IF parsed.ok
            THEN [flows |-> <<[src_office_id |-> row.src, dst_office_id |-> row.dst,
                               avg_day_polybox_qty |-> row.volume,
                               legs |-> LegsOfPath(parsed.value)]>> \o rest.flows,
                  log |-> rest.log]
            ELSE [flows |-> rest.flows, log |-> <<BadRowRecord(row)>> \o rest.log]

\* validator_ext.load_solution(solution_file): [raised, data, log]; data is the
\* dict whose 'flows' load_from_external_format reads (has_flows: the key is there)
LoadSolution(d) ==
    IF ~d.has_file
    THEN [raised |-> "FileNotFoundError", has_flows |-> FALSE, flows |-> <<>>, log |-> <<>>]
    ELSE IF d.kind = "json"
    THEN [raised |-> "none", has_flows |-> d.doc.has_flows, flows |-> d.doc.flows,
          log |-> <<>>]
    ELSE LET got == CsvFlows(d.rows)
         IN [raised |-> "none", has_flows |-> TRUE, flows |-> got.flows, log |-> got.log]

\* path_nodes = [legs[0]['from_office_id']] + [leg['to_office_id'] for leg in legs]
PathOfLegs(legs) ==
    <<legs[1].from_office_id>> \o [i \in 1..Len(legs) |-> legs[i].to_office_id]

\* not (path_nodes[0] != src or path_nodes[-1] != dst)
EndpointsMatch(path_nodes, src, dst) ==
    path_nodes[1] = src /\ path_nodes[Len(path_nodes)] = dst

RECURSIVE ExternalPaths(_)
\* for flow in data.get('flows', []): ... paths.append(...): [raised, paths];
\* the first flow that fails raises and ends the call
ExternalPaths(flows) ==
    IF flows = <<>> THEN [raised |-> "none", paths |-> <<>>]
    ELSE LET flow == Head(flows)
         IN IF flow.legs = <<>> THEN [raised |-> "IndexError", paths |-> <<>>]
            ELSE LET path_nodes == PathOfLegs(flow.legs)
                 IN IF ~EndpointsMatch(path_nodes, flow.src_office_id, flow.dst_office_id)
                    THEN [raised |-> "ValueError", paths |-> <<>>]
                    ELSE LET rest == ExternalPaths(Tail(flows))
                         IN [raised |-> rest.raised,
                             paths |-> <<[src |-> flow.src_office_id,
                                          dst |-> flow.dst_office_id,
                                          volume |-> flow.avg_day_polybox_qty,
                                          path_nodes |-> path_nodes]>> \o rest.paths]

\* Solution.load_from_external_format(data, matrix_df, offices_df, vehicle_capacity)
LoadFromExternalFormatOf(has_flows, flows, vehicle_capacity, env, log_before) ==
    LET got == ExternalPaths(IF has_flows THEN flows ELSE <<>>)
    IN IF got.raised # "none" THEN Raised(got.raised, log_before)
       ELSE Returned(NewSolution(got.paths, vehicle_capacity, env.matrix_df, env.offices_df),
                     log_before)

\* validator_ext.main: load_solution, then Solution.load_from_external_format
ValidatorLoadOf(d, vehicle_capacity, env) ==
    LET data == LoadSolution(d)
    IN IF data.raised # "none" THEN Raised(data.raised, <<>>)
       ELSE LoadFromExternalFormatOf(data.has_flows, data.flows, vehicle_capacity, env,
                                     data.log)

\* ------------------------------------------------------------------ inputs

\* The paths flows take.  <<1, 2, 1, 2>> uses the edge 1 -> 2 twice; <<1, 3, 2>>
\* transits node 3, which has no row in OfficesTable; <<2, 3>> and <<1, 2, 3>> use
\* the edge PartialMatrix lacks.
PathUniverse == {<<1, 2>>, <<2, 3>>, <<1, 2, 3>>, <<1, 3, 2>>, <<1, 2, 1, 2>>}

\* Volumes (in 1/Unit): 45 and 46, 0 and 15, or 49.9 and 49.9995.  One flow list
\* draws its volumes from one of the three sets.
VolumeSets == {{45 * Unit, 46 * Unit}, {0, 15 * Unit}, {499000, 499995}}

\* A flow as Solution expects it: {'src', 'dst', 'volume', 'path_nodes'}
Flow(p, v) == [src |-> p[1], dst |-> p[Len(p)], volume |-> v, path_nodes |-> p]

FlowsOf(V) == {Flow(p, v) : p \in PathUniverse, v \in V}

FlowLists == UNION {UNION {[1..n -> FlowsOf(V)] : n \in 0..MaxFlows} : V \in VolumeSets}

\* reqs.csv as load_data returns it: rows (src_office_id, dst_office_id) -> volume
TareRow(s, d, v) == [src |-> s, dst |-> d, volume |-> v]

TareTables ==
    { <<TareRow(1, 3, 50 * Unit)>>,
      <<TareRow(1, 2, 50 * Unit), TareRow(1, 3, 50 * Unit)>>,
      <<TareRow(3, 1, 0), TareRow(2, 3, 15 * Unit)>> }

\* A flow of the structured solution format.
ExternalFlow(src, dst, qty, path_nodes) ==
    [src_office_id |-> src, dst_office_id |-> dst, avg_day_polybox_qty |-> qty,
     legs |-> LegsOfPath(path_nodes)]

\* Flows of a solution document handed to the validator: well-formed ones, two
\* whose path does not run from src to dst, and one without legs.
ExternalFlows ==
    {ExternalFlow(p[1], p[Len(p)], v, p) :
        p \in {<<1, 2>>, <<2, 3>>, <<1, 2, 3>>}, v \in {45 * Unit, 46 * Unit}}
    \cup {ExternalFlow(1, 3, 45 * Unit, <<1, 2>>),
          ExternalFlow(2, 3, 45 * Unit, <<1, 2, 3>>),
          ExternalFlow(1, 2, 45 * Unit, <<1>>)}

\* A row of a paths.csv handed to the validator.
CsvRow(src, dst, v, text) == [src |-> src, dst |-> dst, volume |-> v, path_nodes |-> text]

\* Rows with a well-formed path, with a path field that does not parse ("[1, 2"
\* and "1-2"), with a path that ends elsewhere than dst, and with an empty path.
ForeignCsvRows ==
    {CsvRow(p[1], p[Len(p)], 45 * Unit, StrOfList(p)) :
        p \in {<<1, 2>>, <<2, 3>>, <<1, 2, 3>>}}
    \cup {CsvRow(1, 2, 46 * Unit, <<91, 49, 44, 50, 93>>),
          CsvRow(1, 2, 45 * Unit, <<91, 49, 44, 32, 50>>),
          CsvRow(1, 2, 45 * Unit, <<49, 45, 50>>),
          CsvRow(1, 3, 45 * Unit, StrOfList(<<1, 2>>)),
          CsvRow(1, 2, 45 * Unit, StrOfList(<<>>))}

SeqsUpTo(S, n) == UNION {[1..k -> S] : k \in 0..n}

\* The solution files a run of the validator may be given.
ForeignDisks ==
    {[kind |-> "json", by |-> "user", has_file |-> TRUE, rows |-> <<>>,
      doc |-> [has_paths |-> FALSE, paths |-> <<>>, has_flows |-> TRUE, flows |-> fl]] :
        fl \in SeqsUpTo(ExternalFlows, MaxFlows)}
    \cup
    {[kind |-> "csv", by |-> "user", has_file |-> TRUE, rows |-> rows, doc |-> <<>>] :
        rows \in SeqsUpTo(ForeignCsvRows, MaxFlows)}

\* ------------------------------------------------------------------ state machine
(***************************************************************************)
(* sol is the analyzer a run builds from flows in memory, disk the         *)
(* solution file of the run: the one sol exported last, or one supplied    *)
(* from outside (then the run builds no analyzer of its own).  call, ret,  *)
(* raised and log describe the most recent call: what was called, what it  *)
(* returned, the exception it raised, and the records it logged.           *)
(***************************************************************************)

NoCall == [op |-> "none"]

NoReturn == [kind |-> "none"]

EmptyDisk == [kind |-> "none", by |-> "none", has_file |-> FALSE, rows |-> <<>>, doc |-> <<>>]

Init ==
    /\ sol = None
    /\ disk \in {EmptyDisk} \cup ForeignDisks
    /\ call = NoCall
    /\ ret = NoReturn
    /\ raised = "none"
    /\ log = <<>>

\* The reference data a load is given: that of sol when the run has one.
LoadEnvs == IF sol.none THEN Envs
            ELSE {[matrix_df |-> sol.matrix_df, offices_df |-> sol.offices_df]}

\* sol = Solution(paths, vehicle_capacity, matrix_df, offices_df)
Construct ==
    /\ sol.none
    /\ disk.kind = "none"
    /\ \E paths \in FlowLists, env \in Envs :
         LET new == NewSolution(paths, DefaultVehicleCapacity * Unit,
                                env.matrix_df, env.offices_df)
         IN /\ sol' = new.obj
            /\ log' = new.log
            /\ call' = [op |-> "Solution"]
    /\ ret' = NoReturn
    /\ raised' = "none"
    /\ UNCHANGED disk

\* errors = sol.validate_coverage(df_tare)
ValidateCoverage ==
    /\ ~sol.none
    /\ \E df_tare \in TareTables :
         /\ ret' = [kind |-> "findings", findings |-> Errors(sol, df_tare)]
         /\ sol' = SelfAfterCoverage(sol, df_tare)
         /\ call' = [op |-> "validate_coverage", df_tare |-> df_tare]
    /\ log' = <<>>
    /\ raised' = "none"
    /\ UNCHANGED disk

\* sol.save_to_csv(output_dir)
SaveToCsv ==
    /\ ~sol.none
    /\ disk' = SaveToCsvOf(sol)
    /\ call' = [op |-> "save_to_csv"]
    /\ ret' = NoReturn
    /\ raised' = "none"
    /\ log' = <<>>
    /\ UNCHANGED sol

\* sol.save_to_json(output_dir)
SaveToJson ==
    /\ ~sol.none
    /\ disk' = SaveToJsonOf(sol)
    /\ call' = [op |-> "save_to_json"]
    /\ ret' = NoReturn
    /\ raised' = "none"
    /\ log' = <<>>
    /\ UNCHANGED sol

\* The effect of a call that returns a Solution or raises.
Outcome(op, out) ==
    /\ call' = [op |-> op]
    /\ ret' = out.ret
    /\ raised' = out.raised
    /\ log' = out.log
    /\ UNCHANGED <<sol, disk>>

\* Solution.load_from_csv(output_dir/paths.csv, matrix_df=..., offices_df=...)
LoadFromCsv ==
    /\ disk.kind = "csv"
    /\ \E env \in LoadEnvs :
         Outcome("load_from_csv", LoadFromCsvOf(disk, DefaultVehicleCapacity * Unit, env))

\* Solution.load_from_json(output_dir, matrix_df=..., offices_df=...)
LoadFromJson ==
    /\ disk.kind = "json"
    /\ \E env \in LoadEnvs :
         Outcome("load_from_json", LoadFromJsonOf(disk, DefaultVehicleCapacity * Unit, env))

\* validator_ext.main on the solution file: load_solution, load_from_external_format
ValidatorLoad ==
    /\ disk.kind # "none"
    /\ \E env \in LoadEnvs :
         Outcome("validator", ValidatorLoadOf(disk, DefaultVehicleCapacity * Unit, env))

Next ==
    \/ Construct
    \/ ValidateCoverage
    \/ SaveToCsv
    \/ SaveToJson
    \/ LoadFromCsv
    \/ LoadFromJson
    \/ ValidatorLoad

Spec == Init /\ [][Next]_vars

\* ------------------------------------------------------------------ what the claims speak of

\* The Solution objects of a state: the run's analyzer and a loaded one.
Built ==
    (IF sol.none THEN {} ELSE {sol})
    \cup (IF ret.kind = "solution" THEN {ret.obj} ELSE {})

\* The positions of a path at which the edge e starts.
OccurrencesIn(path_nodes, e) ==
    {i \in 1..(Len(path_nodes) - 1) : <<path_nodes[i], path_nodes[i + 1]>> = e}

\* Every edge some path of the list uses.
EdgesUsed(paths) ==
    UNION {{<<paths[i].path_nodes[j], paths[i].path_nodes[j + 1]>> :
               j \in 1..(Len(paths[i].path_nodes) - 1)} : i \in 1..Len(paths)}

RECURSIVE ContributionsTo(_, _)
\* One ((src, dst), volume) per occurrence of e in a path, flow after flow.
ContributionsTo(paths, e) ==
    IF paths = <<>> THEN <<>>
    ELSE LET f == Head(paths)
         IN [k \in 1..Cardinality(OccurrencesIn(f.path_nodes, e)) |->
                <<<<f.src, f.dst>>, f.volume>>]
            \o ContributionsTo(Tail(paths), e)

\* The volume of all flows of the request (src, dst).
RequestVolume(paths, key) ==
    SumSeq([i \in 1..Len(paths) |->
               IF <<paths[i].src, paths[i].dst>> = key THEN paths[i].volume ELSE 0])

RequestKeys(paths) == {<<paths[i].src, paths[i].dst>> : i \in 1..Len(paths)}

\* v is the ceiling of the quotient a / b.
IsCeiling(v, a, b) == v * b >= a /\ (v - 1) * b < a

\* The single flow of src 1, dst 3 along 1 -> 2 -> 3.
IsSingleTwoLeg(paths) ==
    Len(paths) = 1 /\ paths[1].path_nodes = <<1, 2, 3>>

\* ------------------------------------------------------------------ C1

\* C1: in a Solution all of whose edges resolve in the edge reference, the leg
\* map has exactly the edges used; every leg holds one contribution
\* ((src, dst), volume) per occurrence of its edge as a consecutive node pair of a
\* flow's path; its sum_volume is the sum of its contributions' volumes; and
\* reqs maps every (src, dst) of a flow to the summed volume of the flows of that
\* (src, dst).
C1_LegsAndReqs ==
    \A s \in Built :
        (\A e \in EdgesUsed(s.paths) : e \in DOMAIN s.matrix_df) =>
            /\ DOMAIN s.transport_legs = EdgesUsed(s.paths)
            /\ \A e \in DOMAIN s.transport_legs :
                 /\ s.transport_legs[e].reqs = ContributionsTo(s.paths, e)
                 /\ s.transport_legs[e].sum_volume =
                        SumSeq([i \in 1..Len(s.transport_legs[e].reqs) |->
                                   s.transport_legs[e].reqs[i][2]])
            /\ DOMAIN s.reqs = RequestKeys(s.paths)
            /\ \A k \in DOMAIN s.reqs : s.reqs[k] = RequestVolume(s.paths, k)

\* A single flow along 1 -> 2 -> 3 with a positive volume, both edges resolved:
\* each leg holds that one contribution and reqs[(1, 3)] is the volume.
C1_Witness ==
    /\ ~sol.none
    /\ IsSingleTwoLeg(sol.paths)
    /\ sol.paths[1].volume > 0
    /\ DOMAIN sol.transport_legs = {<<1, 2>>, <<2, 3>>}
    /\ \A e \in {<<1, 2>>, <<2, 3>>} :
         sol.transport_legs[e].reqs = <<<<<<1, 3>>, sol.paths[1].volume>>>>
    /\ sol.reqs[<<1, 3>>] = sol.paths[1].volume

\* ------------------------------------------------------------------ C2

\* C2: every leg's vehicles is the ceiling of its sum_volume over the vehicle
\* capacity, of the volume summed over all flows; with capacity 90, a
\* sum_volume of 91 has 2 vehicles, of 90 has 1, and of 0 has 0.
C2_VehiclesCeiling ==
    \A s \in Built : \A e \in DOMAIN s.transport_legs :
        LET leg == s.transport_legs[e]
        IN /\ IsCeiling(leg.vehicles, leg.sum_volume, s.vehicle_capacity)
           /\ s.vehicle_capacity = 90 * Unit =>
                /\ leg.sum_volume = 91 * Unit => leg.vehicles = 2
                /\ leg.sum_volume = 90 * Unit => leg.vehicles = 1
                /\ leg.sum_volume = 0 => leg.vehicles = 0

\* A leg that two flows of 45 fill to 90: one vehicle, not one per flow.
C2_Witness ==
    /\ ~sol.none
    /\ \E e \in DOMAIN sol.transport_legs :
         /\ Len(sol.transport_legs[e].reqs) = 2
         /\ sol.transport_legs[e].sum_volume = 90 * Unit
         /\ sol.transport_legs[e].vehicles = 1

\* ------------------------------------------------------------------ C3

\* The log records about the edge e.
OmissionsOf(records, e) == {i \in 1..Len(records) : records[i] = MissingEdgeRecord(e)}

\* C3: Solution(...) completes whatever edges the reference lacks.  An edge
\* without an entry is absent from the leg map and is reported once per
\* occurrence in a path, so once for the one missing edge of a single two-leg
\* path; every other edge used has its leg, with the full volume of its
\* occurrences, the vehicles and the cost that volume gives.
C3_MissingEdge ==
    call.op = "Solution" =>
        /\ ~sol.none /\ raised = "none"
        /\ \A e \in EdgesUsed(sol.paths) :
             IF e \in DOMAIN sol.matrix_df
             THEN /\ e \in DOMAIN sol.transport_legs
                  /\ LET leg == sol.transport_legs[e]
                         volumes == ContributionsTo(sol.paths, e)
                     IN /\ leg.sum_volume = SumSeq([i \in 1..Len(volumes) |-> volumes[i][2]])
                        /\ IsCeiling(leg.vehicles, leg.sum_volume, sol.vehicle_capacity)
                        \* the reference's distances are whole kilometres
                        /\ leg.sum_cost =
                             leg.vehicles * sol.matrix_df[e].price_per_km
                               * (sol.matrix_df[e].distance \div 1000) * Unit
                  /\ OmissionsOf(log, e) = {}
             ELSE /\ e \notin DOMAIN sol.transport_legs
                  /\ Cardinality(OmissionsOf(log, e)) = Len(ContributionsTo(sol.paths, e))
        /\ IsSingleTwoLeg(sol.paths) =>
             Len(log) = Cardinality({e \in EdgesUsed(sol.paths) : e \notin DOMAIN sol.matrix_df})

\* The single flow along 1 -> 2 -> 3 when the reference lacks 2 -> 3: one record,
\* no leg 2 -> 3, and the leg 1 -> 2 carrying the flow.
C3_Witness ==
    /\ call.op = "Solution"
    /\ IsSingleTwoLeg(sol.paths)
    /\ sol.paths[1].volume > 0
    /\ <<2, 3>> \notin DOMAIN sol.matrix_df
    /\ log = <<MissingEdgeRecord(<<2, 3>>)>>
    /\ DOMAIN sol.transport_legs = {<<1, 2>>}
    /\ sol.transport_legs[<<1, 2>>].sum_volume = sol.paths[1].volume
    /\ sol.transport_legs[<<1, 2>>].vehicles = 1

\* ------------------------------------------------------------------ C4

\* The findings about the request (src, dst).
FindingsFor(findings, src, dst) ==
    {i \in 1..Len(findings) : findings[i].src = src /\ findings[i].dst = dst}

\* C4: validate_coverage reports a reference entry (X, Y) with expected volume e
\* exactly when the summed volume of the flows of src X, dst Y (0 if there is
\* none) differs from e by more than 1e-3, and then in one finding, which names
\* X, Y, e and that volume.  With e = 50.0, flows summing to 49.9995 give no
\* finding and flows summing to 49.9 give one naming 50.0 and 49.90.
C4_Coverage ==
    call.op = "validate_coverage" =>
        /\ ret.kind = "findings"
        /\ \A i \in 1..Len(ret.findings) :
             \E j \in 1..Len(call.df_tare) :
                 /\ ret.findings[i].src = call.df_tare[j].src
                 /\ ret.findings[i].dst = call.df_tare[j].dst
        /\ \A j \in 1..Len(call.df_tare) :
             LET row == call.df_tare[j]
                 actual == RequestVolume(sol.paths, <<row.src, row.dst>>)
                 found == FindingsFor(ret.findings, row.src, row.dst)
             IN /\ IF Abs(actual - row.volume) * 1000 > Unit
                   THEN /\ Cardinality(found) = 1
                        /\ \A i \in found :
                             /\ ret.findings[i].expected = row.volume
                             /\ ret.findings[i].actual = Format2(actual)
                   ELSE found = {}
                /\ row.volume = 50 * Unit /\ actual = 499995 => found = {}
                /\ row.volume = 50 * Unit /\ actual = 499000 =>
                     \E i \in found : ret.findings[i].actual = 4990

\* The reference expects 50.0 for (1, 2) and for (1, 3); the flows carry 49.9995
\* for (1, 2) and 49.9 for (1, 3): the one finding is about (1, 3).
C4_Witness ==
    /\ call.op = "validate_coverage"
    /\ call.df_tare = <<TareRow(1, 2, 50 * Unit), TareRow(1, 3, 50 * Unit)>>
    /\ RequestVolume(sol.paths, <<1, 2>>) = 499995
    /\ RequestVolume(sol.paths, <<1, 3>>) = 499000
    /\ ret.findings = <<[src |-> 1, dst |-> 3, expected |-> 50 * Unit, actual |-> 4990]>>

\* ------------------------------------------------------------------ C5

\* The volume that passes through node n as a transit node of a path.
TransitVolume(paths, n) ==
    SumSeq([i \in 1..Len(paths) |->
               paths[i].volume
                 * Cardinality({j \in 2..(Len(paths[i].path_nodes) - 1) :
                                   paths[i].path_nodes[j] = n})])

\* The findings about node n in one direction.
ViolationsOf(violations, n, direction) ==
    {i \in 1..Len(violations) : violations[i].node = n /\ violations[i].direction = direction}

\* C5: for every node of the node table, the inbound and the outbound volume
\* through it are each compared with its transfer_max: a direction has one
\* finding, naming the node, the volume and the limit, when its volume exceeds
\* the limit, and none when it does not.  Inbound 15 through a node of limit 10
\* gives one inbound finding with 15 and 10.
C5_NodeCapacity ==
    \A s \in Built :
        /\ s.offices_df.none => s.metrics.transfer_violations = <<>>
        /\ ~s.offices_df.none =>
             /\ \A i \in 1..Len(s.metrics.transfer_violations) :
                  s.metrics.transfer_violations[i].node \in DOMAIN s.offices_df.rows
             /\ \A n \in DOMAIN s.offices_df.rows : \A direction \in {"in", "out"} :
                  LET volume == TransitVolume(s.paths, n)
                      limit == s.offices_df.rows[n].transfer_max
                      found == ViolationsOf(s.metrics.transfer_violations, n, direction)
                  IN IF volume > limit
                     THEN /\ Cardinality(found) = 1
                          /\ \A i \in found :
                               /\ s.metrics.transfer_violations[i].flow = Format2(volume)
                               /\ s.metrics.transfer_violations[i].max = limit
                     ELSE found = {}

\* 15 passes through node 2 (limit 10) and through node 1 (limit 45): one
\* inbound finding for node 2 with 15.00 and 10, and no finding for node 1.
C5_Witness ==
    /\ ~sol.none /\ ~sol.offices_df.none
    /\ TransitVolume(sol.paths, 2) = 15 * Unit
    /\ TransitVolume(sol.paths, 1) = 15 * Unit
    /\ Cardinality(ViolationsOf(sol.metrics.transfer_violations, 2, "in")) = 1
    /\ \E i \in ViolationsOf(sol.metrics.transfer_violations, 2, "in") :
         sol.metrics.transfer_violations[i] =
             [node |-> 2, direction |-> "in", flow |-> 1500, max |-> 10 * Unit]
    /\ ViolationsOf(sol.metrics.transfer_violations, 1, "in") = {}
    /\ ViolationsOf(sol.metrics.transfer_violations, 1, "out") = {}

\* ------------------------------------------------------------------ C8

\* volume * transfer_price over the transit positions of one path whose node has
\* a row in the node table.
TransferOfPath(path, rows) ==
    SumSeq([j \in 1..Len(path.path_nodes) |->
               IF j > 1 /\ j < Len(path.path_nodes) /\ path.path_nodes[j] \in DOMAIN rows
               THEN path.volume * rows[path.path_nodes[j]].transfer_price
               ELSE 0])

\* C8: transfer_cost is the sum, over every flow and every node of its path but
\* the first and the last that has a row in the node table, of the flow's volume
\* times the node's transfer_price; it is 0 without a node table.
C8_TransferCost ==
    \A s \in Built :
        s.metrics.transfer_cost =
            IF s.offices_df.none THEN 0
            ELSE SumSeq([i \in 1..Len(s.paths) |-> TransferOfPath(s.paths[i], s.offices_df.rows)])

\* One flow transits node 2 (price 3), the other node 3 (no row): the cost is
\* three times the first flow's volume.
C8_Witness ==
    /\ ~sol.none /\ ~sol.offices_df.none
    /\ Len(sol.paths) = 2
    /\ sol.paths[1].path_nodes = <<1, 2, 3>>
    /\ sol.paths[2].path_nodes = <<1, 3, 2>>
    /\ sol.paths[1].volume > 0 /\ sol.paths[2].volume > 0
    /\ sol.metrics.transfer_cost = 3 * sol.paths[1].volume

\* ------------------------------------------------------------------ C9

\* C9: in every Solution of a non-empty flow list, total_cost is
\* transport_cost + transfer_cost, and transport_cost is the sum of sum_cost
\* over the legs of the leg map.
C9_TotalCost ==
    \A s \in Built :
        s.paths # <<>> =>
            /\ s.metrics.total_cost = s.metrics.transport_cost + s.metrics.transfer_cost
            /\ s.metrics.transport_cost =
                   SumOver([e \in DOMAIN s.transport_legs |-> s.transport_legs[e].sum_cost],
                           DOMAIN s.transport_legs)

\* A flow along 1 -> 2 -> 3 when the reference lacks 2 -> 3: both parts of the
\* cost are positive.
C9_Witness ==
    /\ ~sol.none
    /\ \E i \in 1..Len(sol.paths) : sol.paths[i].path_nodes = <<1, 2, 3>>
    /\ <<2, 3>> \notin DOMAIN sol.matrix_df
    /\ sol.metrics.transport_cost > 0
    /\ sol.metrics.transfer_cost > 0
    /\ sol.metrics.total_cost = sol.metrics.transport_cost + sol.metrics.transfer_cost

\* ------------------------------------------------------------------ C10

\* C10: vehicle_utilization (a quotient u[1] / u[2]) lies in [0, 100]; it is 0
\* when total_vehicles is 0, 100 when total_volume exceeds
\* total_vehicles * vehicle_capacity, and total_volume * 100 over that capacity
\* otherwise.
C10_Utilization ==
    \A s \in Built :
        LET u == s.metrics.vehicle_utilization
            capacity == s.metrics.total_vehicles * s.vehicle_capacity
        IN /\ u[2] > 0 /\ u[1] >= 0 /\ u[1] <= 100 * u[2]
           /\ s.metrics.total_vehicles = 0 => u[1] = 0
           /\ s.metrics.total_vehicles > 0 /\ s.metrics.total_volume > capacity =>
                u[1] = 100 * u[2]
           /\ s.metrics.total_vehicles > 0 /\ s.metrics.total_volume <= capacity =>
                u = <<s.metrics.total_volume * 100, capacity>>

\* The flow on the unresolved edge 2 -> 3 counts in total_volume and in no leg:
\* the volume exceeds what the vehicles hold, and the utilization is 100.
C10_Witness ==
    /\ ~sol.none
    /\ sol.metrics.total_vehicles > 0
    /\ sol.metrics.total_volume > sol.metrics.total_vehicles * sol.vehicle_capacity
    /\ sol.metrics.vehicle_utilization = <<100, 1>>

\* ------------------------------------------------------------------ C6

\* C6: after the analyzer of a non-empty flow list was exported (save_to_csv or
\* save_to_json), every load of the exported file (load_from_csv, load_from_json,
\* or the validator's load_solution and load_from_external_format) with the same
\* reference data and capacity returns a Solution whose metrics are those of
\* the analyzer.
C6_RoundTrip ==
    (/\ ~sol.none
     /\ sol.paths # <<>>
     /\ disk.by \in {"save_to_csv", "save_to_json"}
     /\ call.op \in {"load_from_csv", "load_from_json", "validator"})
    => /\ raised = "none"
       /\ ret.kind = "solution"
       /\ ret.obj.metrics = sol.metrics

\* ------------------------------------------------------------------ C7

\* A flow of a solution document whose legs run from its src to its dst.
GoodExternalFlow(flow) ==
    /\ flow.legs # <<>>
    /\ flow.legs[1].from_office_id = flow.src_office_id
    /\ flow.legs[Len(flow.legs)].to_office_id = flow.dst_office_id

\* A flow of a solution document whose path does not run from its src to its dst.
MismatchedExternalFlow(flow) == flow.legs # <<>> /\ ~GoodExternalFlow(flow)

\* A row of paths.csv whose path field is the text of a path from its src to its dst.
GoodCsvRow(row) ==
    LET parsed == EvalList(row.path_nodes)
    IN /\ parsed.ok
       /\ Len(parsed.value) >= 2
       /\ parsed.value[1] = row.src
       /\ parsed.value[Len(parsed.value)] = row.dst

\* A row of paths.csv that is one of the bad records of the claim: its path
\* field does not parse, or its path does not run from its src to its dst.
BadCsvRow(row) ==
    LET parsed == EvalList(row.path_nodes)
    IN \/ ~parsed.ok
       \/ /\ Len(parsed.value) >= 2
          /\ parsed.value[1] # row.src \/ parsed.value[Len(parsed.value)] # row.dst

\* The records of the solution file, each good or one of the claim's bad ones.
DiskRecordKinds ==
    IF disk.kind = "csv"
    THEN [i \in 1..Len(disk.rows) |->
             IF GoodCsvRow(disk.rows[i]) THEN "good"
             ELSE IF BadCsvRow(disk.rows[i]) THEN "bad" ELSE "other"]
    ELSE [i \in 1..Len(disk.doc.flows) |->
             IF GoodExternalFlow(disk.doc.flows[i]) THEN "good"
             ELSE IF MismatchedExternalFlow(disk.doc.flows[i]) THEN "bad" ELSE "other"]

RECURSIVE SelectSeq2(_, _)
\* The elements of s at the positions where keep is TRUE.
SelectSeq2(s, keep) ==
    IF s = <<>> THEN <<>>
    ELSE (IF Head(keep) THEN <<Head(s)>> ELSE <<>>) \o SelectSeq2(Tail(s), Tail(keep))

\* The flows of the good records of the solution file, as Solution takes them.
GoodPathsOnDisk ==
    LET kinds == DiskRecordKinds
        keep == [i \in 1..Len(kinds) |-> kinds[i] = "good"]
    IN IF disk.kind = "csv"
       THEN LET rows == SelectSeq2(disk.rows, keep)
            IN [i \in 1..Len(rows) |->
                   [src |-> rows[i].src, dst |-> rows[i].dst, volume |-> rows[i].volume,
                    path_nodes |-> EvalList(rows[i].path_nodes).value]]
       ELSE LET flows == SelectSeq2(disk.doc.flows, keep)
            IN [i \in 1..Len(flows) |->
                   [src |-> flows[i].src_office_id, dst |-> flows[i].dst_office_id,
                    volume |-> flows[i].avg_day_polybox_qty,
                    path_nodes |-> PathOfLegs(flows[i].legs)]]

\* C7: when the validator loads a solution file with exactly one bad record (a
\* flow whose path does not run from its src to its dst, or a row whose path
\* field does not parse) among good ones, nothing is raised, and the Solution
\* returned has the legs, request aggregates and metrics of the good records,
\* whether or not their edges resolve.
C7_BadRecordSkipped ==
    (/\ call.op = "validator"
     /\ disk.by = "user"
     /\ LET kinds == DiskRecordKinds
        IN /\ Cardinality({i \in 1..Len(kinds) : kinds[i] = "bad"}) = 1
           /\ \A i \in 1..Len(kinds) : kinds[i] \in {"good", "bad"})
    => /\ raised = "none"
       /\ ret.kind = "solution"
       /\ LET expected == NewSolution(GoodPathsOnDisk, DefaultVehicleCapacity * Unit,
                                      ret.obj.matrix_df, ret.obj.offices_df).obj
          IN /\ ret.obj.transport_legs = expected.transport_legs
             /\ ret.obj.reqs = expected.reqs
             /\ ret.obj.metrics = expected.metrics

\* ------------------------------------------------------------------ C11

\* C11: a call of validate_coverage, with whatever reference table, leaves the
\* analyzer as it was (paths, transport_legs, reqs and every metric), and a call
\* that follows another with the same reference table returns the same findings.
C11_CoverageFrame ==
    [][call'.op = "validate_coverage" =>
          /\ sol' = sol
          /\ (call.op = "validate_coverage" /\ call.df_tare = call'.df_tare) => ret' = ret]_vars

\* validate_coverage has returned findings for a table that names a request,
\* (3, 1), no flow has; reqs still holds the flows' requests only.
C11_Witness ==
    /\ call.op = "validate_coverage"
    /\ \E j \in 1..Len(call.df_tare) : <<call.df_tare[j].src, call.df_tare[j].dst>> = <<3, 1>>
    /\ sol.paths # <<>>
    /\ ret.findings # <<>>
    /\ DOMAIN sol.reqs = RequestKeys(sol.paths)

\* ------------------------------------------------------------------ binary64

(***************************************************************************)
(* The sums above are exact.  Python adds volumes as floats (IEEE 754      *)
(* binary64, round to nearest, ties to even), and a float sum depends on   *)
(* the order of its terms.  What follows is that arithmetic, bit for bit,  *)
(* for positive numbers: a float is zero or bits * 2^exp, with bits a      *)
(* sequence of Precision binary digits, the first of them 1.               *)
(***************************************************************************)

\* The binary digits of a float's significand.
Precision == 53

Zeros(n) == [i \in 1..n |-> 0]

FZero == [exp |-> 0, bits |-> Zeros(Precision)]

\* The carry into digit i of x + y: some lower digit makes one, and every
\* digit between passes it on.
CarryInto(x, y, i) ==
    \E j \in (i + 1)..Len(x) :
        /\ x[j] + y[j] = 2
        /\ \A k \in (i + 1)..(j - 1) : x[k] + y[k] = 1

\* x + y, one digit longer than x and y, which are of one length
AddBits(x, y) ==
    [i \in 1..(Len(x) + 1) |->
        IF i = 1 THEN (IF CarryInto(x, y, 0) THEN 1 ELSE 0)
        ELSE (x[i - 1] + y[i - 1] + (IF CarryInto(x, y, i - 1) THEN 1 ELSE 0)) % 2]

\* The borrow from digit i of x - y.
BorrowFrom(x, y, i) ==
    \E j \in (i + 1)..Len(x) :
        /\ x[j] < y[j]
        /\ \A k \in (i + 1)..(j - 1) : x[k] = y[k]

\* x - y for x >= y of one length
SubBits(x, y) ==
    [i \in 1..Len(x) |-> (2 + x[i] - y[i] - (IF BorrowFrom(x, y, i) THEN 1 ELSE 0)) % 2]

\* x >= y for x and y of one length
GeqBits(x, y) ==
    LET D == {i \in 1..Len(x) : x[i] # y[i]}
    IN D = {} \/ x[CHOOSE i \in D : \A j \in D : i <= j] = 1

RECURSIVE BitsOfInt(_)
\* The binary digits of n >= 0, none for 0.
BitsOfInt(n) == IF n = 0 THEN <<>> ELSE Append(BitsOfInt(n \div 2), n % 2)

RECURSIVE IntOfBits(_)
IntOfBits(x) == IF x = <<>> THEN 0 ELSE 2 * IntOfBits(SubSeq(x, 1, Len(x) - 1)) + x[Len(x)]

\* Rounding to nearest, ties to even: x has Precision digits or more, the first
\* of them 1; sticky says that a nonzero remainder lies below x's last digit.
\* The result is bits * 2^shift in units of x's last digit.
RoundBits(x, sticky) ==
    LET kept == SubSeq(x, 1, Precision)
        cut == SubSeq(x, Precision + 1, Len(x))
        half == cut # <<>> /\ cut[1] = 1
        more == sticky \/ \E i \in 2..Len(cut) : cut[i] = 1
        up == half /\ (more \/ kept[Precision] = 1)
        next == AddBits(kept, Append(Zeros(Precision - 1), 1))
    IN IF ~up THEN [bits |-> kept, shift |-> Len(cut)]
       ELSE IF next[1] = 1 THEN [bits |-> SubSeq(next, 1, Precision), shift |-> Len(cut) + 1]
       ELSE [bits |-> Tail(next), shift |-> Len(cut)]

\* a + b
FAdd(a, b) ==
    IF a = FZero THEN b
    ELSE IF b = FZero THEN a
    ELSE LET hi == IF a.exp >= b.exp THEN a ELSE b
             lo == IF a.exp >= b.exp THEN b ELSE a
             d == hi.exp - lo.exp
             sum == AddBits(hi.bits \o Zeros(d), Zeros(d) \o lo.bits)
             r == RoundBits(IF sum[1] = 0 THEN Tail(sum) ELSE sum, FALSE)
         IN [exp |-> lo.exp + r.shift, bits |-> r.bits]

RECURSIVE RatioDigits(_, _, _, _)
\* The first Precision + 1 significant digits of the quotient whose digits so
\* far are acc and whose remainder is r < d; k counts the digits after the point.
RatioDigits(r, d, acc, k) ==
    IF Len(acc) >= Precision + 1 THEN [bits |-> acc, sticky |-> r # 0, frac |-> k]
    ELSE LET bit == IF 2 * r >= d THEN 1 ELSE 0
         IN RatioDigits(2 * r - bit * d, d,
                        IF acc = <<>> /\ bit = 0 THEN acc ELSE Append(acc, bit), k + 1)

\* The float nearest to n / d, for integers n >= 0 and d > 0: what float() and
\* json.load make of a decimal numeral.
FloatOfRatio(n, d) ==
    IF n = 0 THEN FZero
    ELSE LET q == RatioDigits(n % d, d, BitsOfInt(n \div d), 0)
             r == RoundBits(q.bits, q.sticky)
         IN [exp |-> r.shift - q.frac, bits |-> r.bits]

RECURSIVE QuotientDigits(_, _, _, _)
\* As RatioDigits, the remainder r and the divisor d being digit sequences of
\* Precision + 1 digits.
QuotientDigits(r, d, acc, k) ==
    IF Len(acc) >= Precision + 1
    THEN [bits |-> acc, sticky |-> r # Zeros(Precision + 1), frac |-> k]
    ELSE LET twice == Append(Tail(r), 0)
             bit == IF GeqBits(twice, d) THEN 1 ELSE 0
         IN QuotientDigits(IF bit = 1 THEN SubBits(twice, d) ELSE twice, d,
                           IF acc = <<>> /\ bit = 0 THEN acc ELSE Append(acc, bit), k + 1)

\* a / b, for b # 0
FDiv(a, b) ==
    IF a = FZero THEN FZero
    ELSE LET x == <<0>> \o a.bits
             y == <<0>> \o b.bits
             q == IF GeqBits(x, y)
                  THEN QuotientDigits(SubBits(x, y), y, <<1>>, 0)
                  ELSE QuotientDigits(x, y, <<>>, 0)
             r == RoundBits(q.bits, q.sticky)
         IN [exp |-> a.exp - b.exp + r.shift - q.frac, bits |-> r.bits]

\* math.ceil(a), for 0 <= a < 2^30
FCeil(a) ==
    IF a = FZero THEN 0
    ELSE IF a.exp >= 0 THEN IntOfBits(a.bits \o Zeros(a.exp))
    ELSE IF 0 - a.exp >= Precision THEN 1
    ELSE LET n == Precision + a.exp
         IN IntOfBits(SubSeq(a.bits, 1, n))
            + (IF \E i \in (n + 1)..Precision : a.bits[i] = 1 THEN 1 ELSE 0)

\* ------------------------------------------------------------------ one leg, in floats

(***************************************************************************)
(* _reconstruct_transport_legs_from_paths for flows that all run over one  *)
(* resolved edge, the volumes being floats: call holds the flows' volumes  *)
(* (in tenths of a cubic metre, as written in the solution file) and how   *)
(* many of them the loop has added; ret holds the leg.                     *)
(***************************************************************************)

\* Volumes in tenths: 0.2, 0.4, 89.4
FloatVolumes == {2, 4, 894}

FloatVolumeLists == UNION {[1..n -> FloatVolumes] : n \in 1..MaxTerms}

\* path['volume'], the float read from the numeral tenths / 10
FloatVolume(tenths) == FloatOfRatio(tenths, 10)

\* vehicle_capacity=90.0
FloatCapacity == FloatOfRatio(DefaultVehicleCapacity, 1)

\* math.ceil(leg['sum_volume'] / self.vehicle_capacity)
FloatVehicles(sum_volume) == FCeil(FDiv(sum_volume, FloatCapacity))

RECURSIVE FloatSumVolume(_, _)
\* sum_volume after "transport_legs[key]['sum_volume'] += volume" for every flow
FloatSumVolume(sum_volume, volumes) ==
    IF volumes = <<>> THEN sum_volume
    ELSE FloatSumVolume(FAdd(sum_volume, FloatVolume(Head(volumes))), Tail(volumes))

FloatInit ==
    /\ sol = None
    /\ disk = EmptyDisk
    /\ call \in {[op |-> "Solution", volumes |-> v, added |-> 0] : v \in FloatVolumeLists}
    /\ ret = [kind |-> "leg", sum_volume |-> FZero]
    /\ raised = "none"
    /\ log = <<>>

\* One pass of "for path in self.paths" over the edge.
FloatAddFlow ==
    /\ ret.kind = "leg"
    /\ call.added < Len(call.volumes)
    /\ ret' = [ret EXCEPT !.sum_volume = FAdd(@, FloatVolume(call.volumes[call.added + 1]))]
    /\ call' = [call EXCEPT !.added = @ + 1]
    /\ UNCHANGED <<sol, disk, raised, log>>

\* "for leg in transport_legs.values()", after the last flow.
FloatPriceLeg ==
    /\ ret.kind = "leg"
    /\ call.added = Len(call.volumes)
    /\ ret' = [kind |-> "priced", sum_volume |-> ret.sum_volume,
               vehicles |-> FloatVehicles(ret.sum_volume)]
    /\ UNCHANGED <<sol, disk, call, raised, log>>

FloatNext == FloatAddFlow \/ FloatPriceLeg

FloatSpec == FloatInit /\ [][FloatNext]_vars

\* ------------------------------------------------------------------ C12

\* The flows in the order p, a permutation of their positions.
Permute(paths, p) == [i \in 1..Len(paths) |-> paths[p[i]]]

\* C12: a leg's vehicles is the same for every order of the same flows.  With
\* float volumes it is not: 89.4, 0.4, 0.2 add up to 90.00000000000001 and
\* need 2 vehicles, 0.2, 0.4, 89.4 add up to 90.0 and need 1.
C12_VehiclesAnyOrder ==
    ret.kind = "priced" =>
        \A p \in Permutations(1..Len(call.volumes)) :
            FloatVehicles(FloatSumVolume(FZero, Permute(call.volumes, p))) = ret.vehicles

\* How many times x occurs in the sequence.
CountIn(seq, x) == Cardinality({i \in 1..Len(seq) : seq[i] = x})

\* Two sequences with the same elements, each as many times.
SameBag(a, b) ==
    /\ Len(a) = Len(b)
    /\ \A i \in 1..Len(a) : CountIn(a, a[i]) = CountIn(b, a[i])

AsSet(seq) == {seq[i] : i \in 1..Len(seq)}

\* The analysis results of two analyzers agree in what does not record an order.
SameAnalysis(a, b) ==
    /\ DOMAIN a.transport_legs = DOMAIN b.transport_legs
    /\ \A e \in DOMAIN a.transport_legs :
         /\ a.transport_legs[e].sum_volume = b.transport_legs[e].sum_volume
         /\ a.transport_legs[e].vehicles = b.transport_legs[e].vehicles
         /\ a.transport_legs[e].sum_cost = b.transport_legs[e].sum_cost
         /\ SameBag(a.transport_legs[e].reqs, b.transport_legs[e].reqs)
    /\ a.reqs = b.reqs
    /\ [a.metrics EXCEPT !.transfer_violations = <<>>]
           = [b.metrics EXCEPT !.transfer_violations = <<>>]
    /\ AsSet(a.metrics.transfer_violations) = AsSet(b.metrics.transfer_violations)

\* Order independence when the sums are exact (Spec adds volumes exactly): for
\* an analyzer that has just been constructed, the analyzer built from the same
\* flows in any other order, with the same reference data and capacity, has
\* the same sum_volume, vehicles and sum_cost on every leg, the same multiset of
\* contributions on every leg, the same request aggregates, the same metrics and
\* the same set of capacity findings, whether or not every edge resolves.
OrderIndependentWhenExact ==
    call.op = "Solution" =>
        \A p \in Permutations(1..Len(sol.paths)) :
            SameAnalysis(sol, NewSolution(Permute(sol.paths, p), sol.vehicle_capacity,
                                          sol.matrix_df, sol.offices_df).obj)

\* ------------------------------------------------------------------ C13

\* The accumulators of _calculate_transfer_costs after i flows and the first k
\* transit nodes of the next one.
AccumulationAt(paths, offices_df, i, k) ==
    LET before == TransferLoop([cost |-> 0, in_flow |-> <<>>, out_flow |-> <<>>],
                               SubSeq(paths, 1, i), offices_df)
    IN IF k = 0 THEN before
       ELSE TransitLoop(before, SubSeq(TransitNodes(paths[i + 1].path_nodes), 1, k),
                        paths[i + 1].volume, offices_df)

\* The points of the accumulation: <<i, k>> as in AccumulationAt.
AccumulationPoints(paths) ==
    {<<i, 0>> : i \in 0..Len(paths)}
    \cup UNION {{<<i - 1, k>> : k \in 1..Len(TransitNodes(paths[i].path_nodes))} :
                   i \in 1..Len(paths)}

\* C13: at every point of the accumulation of _calculate_transfer_costs the
\* inbound and the outbound volume of every node are equal; at its end they are
\* the volume that passed the node at transit positions, whatever the node sent
\* as a source or received as a destination; and a node of the node table has
\* either no capacity finding, or one inbound and one outbound finding with the
\* same volume.
C13_InEqualsOut ==
    call.op = "Solution" =>
        /\ \A pt \in AccumulationPoints(sol.paths) :
             LET acc == AccumulationAt(sol.paths, sol.offices_df, pt[1], pt[2])
             IN acc.in_flow = acc.out_flow
        /\ LET acc == AccumulationAt(sol.paths, sol.offices_df, Len(sol.paths), 0)
           IN \A n \in DOMAIN acc.in_flow :
                  /\ acc.in_flow[n] = TransitVolume(sol.paths, n)
                  /\ \E i \in 1..Len(sol.paths) : \E j \in 2..(Len(sol.paths[i].path_nodes) - 1) :
                         sol.paths[i].path_nodes[j] = n
        /\ ~sol.offices_df.none =>
             \A n \in DOMAIN sol.offices_df.rows :
                 LET found == sol.metrics.transfer_violations
                     ins == ViolationsOf(found, n, "in")
                     outs == ViolationsOf(found, n, "out")
                 IN \/ ins = {} /\ outs = {}
                    \/ /\ Cardinality(ins) = 1
                       /\ Cardinality(outs) = 1
                       /\ \A i \in ins : \A o \in outs : found[i].flow = found[o].flow

\* Node 2 sends 15 as the source of one flow and passes 15 as a transit node of
\* another: its inbound and outbound volumes are 15 each, and it has one inbound
\* and one outbound finding.
C13_Witness ==
    /\ call.op = "Solution"
    /\ ~sol.offices_df.none
    /\ \E i \in 1..Len(sol.paths) : sol.paths[i].src = 2 /\ sol.paths[i].volume = 15 * Unit
    /\ TransitVolume(sol.paths, 2) = 15 * Unit
    /\ Cardinality(ViolationsOf(sol.metrics.transfer_violations, 2, "in")) = 1
    /\ Cardinality(ViolationsOf(sol.metrics.transfer_violations, 2, "out")) = 1

\* ------------------------------------------------------------------ C14

\* The request keys of a reference request table.
TareKeys(df_tare) == {<<df_tare[j].src, df_tare[j].dst>> : j \in 1..Len(df_tare)}

\* The analyzer with the leg map the edge reference matrix_df would have given.
WithEdgeReference(self, matrix_df) ==
    [self EXCEPT !.matrix_df = matrix_df,
                 !.transport_legs =
                     ReconstructTransportLegs(self.paths, self.vehicle_capacity, matrix_df).legs]

\* C14: every finding of validate_coverage is about a request key of the
\* reference table, and no two are about one key; a request of the flows that
\* the table does not name has no finding, whatever its volume; and the findings
\* are those the same flows give with any other edge reference, one that
\* resolves every edge or one that resolves fewer.
C14_CoverageKeys ==
    call.op = "validate_coverage" =>
        /\ \A i \in 1..Len(ret.findings) :
             /\ <<ret.findings[i].src, ret.findings[i].dst>> \in TareKeys(call.df_tare)
             /\ FindingsFor(ret.findings, ret.findings[i].src, ret.findings[i].dst) = {i}
        /\ \A key \in RequestKeys(sol.paths) \ TareKeys(call.df_tare) :
             FindingsFor(ret.findings, key[1], key[2]) = {}
        /\ \A matrix_df \in {FullMatrix, PartialMatrix} :
             Errors(WithEdgeReference(sol, matrix_df), call.df_tare) = ret.findings

\* The edge reference lacks 2 -> 3, so no flow's every edge resolved; the flows
\* carry 49.9 for (1, 3), of which the table expects 50.0, and 49.9 for (2, 3),
\* which the table does not name: the one finding is about (1, 3).
C14_Witness ==
    /\ call.op = "validate_coverage"
    /\ call.df_tare = <<TareRow(1, 3, 50 * Unit)>>
    /\ <<2, 3>> \notin DOMAIN sol.matrix_df
    /\ <<2, 3>> \notin DOMAIN sol.transport_legs
    /\ RequestVolume(sol.paths, <<2, 3>>) = 499000
    /\ RequestVolume(sol.paths, <<1, 3>>) = 499000
    /\ ret.findings = <<[src |-> 1, dst |-> 3, expected |-> 50 * Unit, actual |-> 4990]>>

====
